---- MODULE Spec2Model ----
(***************************************************************************)
(* Model of the graph algorithms of the waste-collection routing tool:     *)
(* GraphAlgorithms.dijkstra, color_graph, validate_graph, find_all_paths   *)
(* (algorithms.py), the constrained search of Dijkstra-algo.py, and the    *)
(* test endpoint of server.py that feeds them.                             *)
(*                                                                         *)
(* One call is one run of the machine: Init draws the call's arguments,    *)
(* the actions are the steps of the called function, pc = "done" holds the *)
(* returned value in result.                                               *)
(***************************************************************************)
EXTENDS Integers, Sequences, FiniteSets, TLC

VARIABLES
    op,                 \* the function being run
    nodes,              \* argument: list of node dicts
    edges,              \* argument: list of edge dicts
    src,                \* argument: source identifier, as passed
    dst,                \* argument: destination identifier, as passed
    max_paths,          \* argument of find_all_paths
    C_prime_constraint, \* Dijkstra-algo.py: override of directed edges
    pc,                 \* position in the function
    graph,              \* adjacency structure, once built
    dist,               \* tentative distances
    prev,               \* predecessor links
    unvisited,          \* nodes not yet selected
    colors,             \* color_graph: the labels given so far
    idx,                \* color_graph: position in the node list
    all_paths,          \* find_all_paths: the paths collected so far
    stack,              \* find_all_paths: the calls of dfs in progress
    visited,            \* find_all_paths: the nodes of the current path
    result              \* the returned value (or the raised exception)

\* The arguments of the call.
argv == <<op, nodes, edges, src, dst, max_paths, C_prime_constraint>>

\* The locals of color_graph.
cvars == <<colors, idx>>

\* The locals of find_all_paths.
pvars == <<all_paths, stack, visited>>

vars == <<argv, pc, graph, dist, prev, unvisited, cvars, pvars, result>>

----------------------------------------------------------------------------
(* Values *)

\* Python's None; also stands for a local that is not bound yet.
None == <<>>

\* float('inf') is the empty tuple, a finite number n the 1-tuple <<n>>.
Inf == <<>>

Fin(n) == <<n>>

\* a < b on floats-with-infinity (inf < inf is false).
Less(a, b) == a # Inf /\ (b = Inf \/ a[1] < b[1])

\* a + w, with inf + w = inf.
Plus(a, w) == IF a = Inf THEN Inf ELSE Fin(a[1] + w)

\* str.upper() on the identifiers of the model.
Upper(s) ==
    CASE s = "a" -> "A"
      [] s = "b" -> "B"
      [] s = "c" -> "C"
      [] s = "d" -> "D"
      [] OTHER -> s

\* {node['id'] for node in nodes}
NodeIdSet(ns) == {ns[i].id : i \in DOMAIN ns}

----------------------------------------------------------------------------
(* The arguments a caller can pass: the handlers of server.py hand the     *)
(* decoded JSON body to the algorithms as it is.                           *)

\* Longest edge list drawn freely (any endpoints, any order, repeats).
MaxEdges == 2

\* Largest edge weight drawn.
MaxWeight == 3

\* The node identifiers of the freely drawn edge lists.
Ids == {"A", "B", "C"}

\* The node identifiers of the drawn simple graphs.
Ids4 == {"A", "B", "C", "D"}

\* What a caller may pass as src or dst: an identifier in either case.
Names == Ids \cup {"a", "b"}

\* The identifiers, in the order used to draw graphs.
IdSeq == <<"A", "B", "C", "D", "E", "F", "G", "H", "I">>

\* An order of the identifiers, used only to draw each edge once.
StrLess(a, b) ==
    LET rank(n) == CHOOSE i \in DOMAIN IdSeq : IdSeq[i] = n
    IN rank(a) < rank(b)

Node(id) == [id |-> id, x |-> 0, y |-> 0]

Edge(u, v, w) == [u |-> u, v |-> v, w |-> w]

NodeList(ids) == [i \in 1..Len(ids) |-> Node(ids[i])]

\* An edge {u, v} is drawn once: (u, v, w) and (v, u, w) add the same two
\* entries to the adjacency structure.
EdgeDicts(ids, ws) == {e \in [u : ids, v : ids, w : ws] : ~StrLess(e.v, e.u)}

SeqsUpTo(S, n) == UNION {[1..k -> S] : k \in 0..n}

----------------------------------------------------------------------------
(* GraphAlgorithms.dijkstra *)

\* The adjacency list after the edges es[i..] have been added to g, or the
\* KeyError raised by the first edge whose endpoint is no key of g.
RECURSIVE AddEdges(_, _, _)
AddEdges(g, es, i) ==
    IF i > Len(es) THEN [ok |-> TRUE, graph |-> g]
    ELSE LET e == es[i] IN
         IF e.u \notin DOMAIN g THEN [ok |-> FALSE, key |-> e.u]
         ELSE IF e.v \notin DOMAIN g THEN [ok |-> FALSE, key |-> e.v]
         ELSE LET g1 == [g EXCEPT ![e.u] = Append(@, <<e.v, e.w>>)]
                  g2 == [g1 EXCEPT ![e.v] = Append(@, <<e.u, e.w>>)]
              IN AddEdges(g2, es, i + 1)

BuildAdjacency(ns, es) ==
    AddEdges([id \in NodeIdSet(ns) |-> <<>>], es, 1)

\* Mutant: the selection takes any node of finite distance, not a nearest one.
MinCandidatesAnyFinite(d, unv) == {n \in unv : d[n] # Inf}

\* The nodes the selection loop can return: it scans the set unvisited in
\* its iteration order and keeps the first node of strictly smallest
\* distance; the order of a set of strings is not fixed, so any node of
\* minimal finite distance can be the one.
MinCandidates(d, unv) ==
    {n \in unv : d[n] # Inf /\ \A m \in unv : ~Less(d[m], d[n])}

\* Mutant: the relaxation also replaces an equal distance (<= for <).
RECURSIVE RelaxOnEqual(_, _, _, _, _)
RelaxOnEqual(adj, i, current, unv, dp) ==
    IF i > Len(adj) THEN dp
    ELSE LET neighbor == adj[i][1]
             weight   == adj[i][2]
             alt      == Plus(dp.dist[current], weight)
         IN IF neighbor \in unv /\ ~Less(dp.dist[neighbor], alt)
            THEN RelaxOnEqual(adj, i + 1, current, unv,
                       [dist |-> [dp.dist EXCEPT ![neighbor] = alt],
                        prev |-> [dp.prev EXCEPT ![neighbor] = <<current>>]])
            ELSE RelaxOnEqual(adj, i + 1, current, unv, dp)

\* Mutant: a visited neighbour is relaxed as well.
RECURSIVE RelaxVisitedToo(_, _, _, _, _)
RelaxVisitedToo(adj, i, current, unv, dp) ==
    IF i > Len(adj) THEN dp
    ELSE LET neighbor == adj[i][1]
             weight   == adj[i][2]
             alt      == Plus(dp.dist[current], weight)
         IN IF Less(alt, dp.dist[neighbor])
            THEN RelaxVisitedToo(adj, i + 1, current, unv,
                       [dist |-> [dp.dist EXCEPT ![neighbor] = alt],
                        prev |-> [dp.prev EXCEPT ![neighbor] = <<current>>]])
            ELSE RelaxVisitedToo(adj, i + 1, current, unv, dp)

\* for neighbor, weight in graph[current]: ... from position i on; dp is the
\* pair of maps [dist, prev]. A predecessor is None or the 1-tuple <<id>>.
RECURSIVE Relax(_, _, _, _, _)
Relax(adj, i, current, unv, dp) ==
    IF i > Len(adj) THEN dp
    ELSE LET neighbor == adj[i][1]
             weight   == adj[i][2]
             alt      == Plus(dp.dist[current], weight)
         IN IF neighbor \in unv /\ Less(alt, dp.dist[neighbor])
            THEN Relax(adj, i + 1, current, unv,
                       [dist |-> [dp.dist EXCEPT ![neighbor] = alt],
                        prev |-> [dp.prev EXCEPT ![neighbor] = <<current>>]])
            ELSE Relax(adj, i + 1, current, unv, dp)

\* while current is not None: path.insert(0, current); current = prev[current]
\* The walk is cut after fuel steps: a walk that needs more never ends.
RECURSIVE WalkBack(_, _, _, _)
WalkBack(pv, current, path, fuel) ==
    IF current = None THEN [ends |-> TRUE, path |-> path]
    ELSE IF fuel = 0 THEN [ends |-> FALSE, path |-> path]
    ELSE WalkBack(pv, pv[current[1]], <<current[1]>> \o path, fuel - 1)

NodeNotFound(id) ==
    [path |-> None, cost |-> Inf, error |-> <<"Le point", id, "n'existe pas">>]

NoPathFound ==
    [path |-> None, cost |-> Inf, error |-> <<"Aucun chemin trouve">>]

KeyError(k) == [raised |-> "KeyError", key |-> k]

PathFound(path, d) == [path |-> path, cost |-> d, distance |-> d]

\* Mutant: the adjacency list is built before src and dst are looked up.
DijkstraStartBuildFirst ==
    /\ op = "dijkstra" /\ pc = "start"
    /\ LET node_ids == NodeIdSet(nodes)
           s == Upper(src)
           d == Upper(dst)
           built == BuildAdjacency(nodes, edges)
       IN IF ~built.ok
          THEN /\ result' = KeyError(built.key)
               /\ pc' = "done"
               /\ UNCHANGED <<graph, dist, prev, unvisited>>
          ELSE IF s \notin node_ids
          THEN /\ result' = NodeNotFound(s)
               /\ pc' = "done"
               /\ graph' = built.graph
               /\ UNCHANGED <<dist, prev, unvisited>>
          ELSE IF d \notin node_ids
          THEN /\ result' = NodeNotFound(d)
               /\ pc' = "done"
               /\ graph' = built.graph
               /\ UNCHANGED <<dist, prev, unvisited>>
          ELSE /\ graph' = built.graph
               /\ dist' = [n \in node_ids |-> IF n = s THEN Fin(0) ELSE Inf]
               /\ prev' = [n \in node_ids |-> None]
               /\ unvisited' = node_ids
               /\ pc' = "loop"
               /\ UNCHANGED result
    /\ UNCHANGED <<argv, cvars, pvars>>

\* Lines 27-51: the existence checks, then the adjacency list and the
\* initial maps.
DijkstraStart ==
    /\ op = "dijkstra" /\ pc = "start"
    /\ LET node_ids == NodeIdSet(nodes)
           s == Upper(src)
           d == Upper(dst)
           built == BuildAdjacency(nodes, edges)
       IN IF s \notin node_ids
          THEN /\ result' = NodeNotFound(s)
               /\ pc' = "done"
               /\ UNCHANGED <<graph, dist, prev, unvisited>>
          ELSE IF d \notin node_ids
          THEN /\ result' = NodeNotFound(d)
               /\ pc' = "done"
               /\ UNCHANGED <<graph, dist, prev, unvisited>>
          ELSE IF ~built.ok
          THEN /\ result' = KeyError(built.key)
               /\ pc' = "done"
               /\ UNCHANGED <<graph, dist, prev, unvisited>>
          ELSE /\ graph' = built.graph
               /\ dist' = [n \in node_ids |-> IF n = s THEN Fin(0) ELSE Inf]
               /\ prev' = [n \in node_ids |-> None]
               /\ unvisited' = node_ids
               /\ pc' = "loop"
               /\ UNCHANGED result
    /\ UNCHANGED <<argv, cvars, pvars>>

\* Lines 54-74, one iteration that selects a node and relaxes its edges.
DijkstraVisit ==
    /\ op = "dijkstra" /\ pc = "loop"
    /\ \E current \in MinCandidates(dist, unvisited) :
        LET unv == unvisited \ {current}
            dp  == Relax(graph[current], 1, current, unv,
                         [dist |-> dist, prev |-> prev])
        IN /\ unvisited' = unv
           /\ dist' = dp.dist
           /\ prev' = dp.prev
    /\ UNCHANGED <<argv, cvars, pvars, pc, graph, result>>

\* Mutant: the loop can also end when several nodes are nearest.
DijkstraBreakOnTie ==
    /\ op = "dijkstra" /\ pc = "loop"
    /\ Cardinality(MinCandidates(dist, unvisited)) # 1
    /\ pc' = "rebuild"
    /\ UNCHANGED <<argv, cvars, pvars, graph, dist, prev, unvisited, result>>

\* Lines 54 and 63-64: the loop ends when no node is left or none of the
\* remaining ones has a finite distance.
DijkstraBreak ==
    /\ op = "dijkstra" /\ pc = "loop"
    /\ MinCandidates(dist, unvisited) = {}
    /\ pc' = "rebuild"
    /\ UNCHANGED <<argv, cvars, pvars, graph, dist, prev, unvisited, result>>

\* Lines 76-91: the walk back from dst and the returned value.
DijkstraReturn ==
    /\ op = "dijkstra" /\ pc = "rebuild"
    /\ LET s == Upper(src)
           d == Upper(dst)
           walk == WalkBack(prev, <<d>>, <<>>, Cardinality(DOMAIN prev) + 1)
       IN /\ walk.ends
          /\ result' = IF walk.path = <<>> \/ walk.path[1] # s
                       THEN NoPathFound
                       ELSE PathFound(walk.path, dist[d])
    /\ pc' = "done"
    /\ UNCHANGED <<argv, cvars, pvars, graph, dist, prev, unvisited>>

----------------------------------------------------------------------------
(* GraphAlgorithms.color_graph *)

\* Line 115.
days == <<"Lundi", "Mardi", "Mercredi", "Jeudi", "Vendredi", "Weekend">>

\* Lines 110-112, from edge i on: the neighbour sets, or the KeyError of the
\* first edge whose endpoint is no key of adj.
RECURSIVE AddNeighbours(_, _, _)
AddNeighbours(adj, es, i) ==
    IF i > Len(es) THEN [ok |-> TRUE, graph |-> adj]
    ELSE LET e == es[i] IN
         IF e.u \notin DOMAIN adj THEN [ok |-> FALSE, key |-> e.u]
         ELSE IF e.v \notin DOMAIN adj THEN [ok |-> FALSE, key |-> e.v]
         ELSE LET a1 == [adj EXCEPT ![e.u] = @ \cup {e.v}]
                  a2 == [a1 EXCEPT ![e.v] = @ \cup {e.u}]
              IN AddNeighbours(a2, es, i + 1)

\* Lines 125-127.
UsedColors(adj, cols, node_id) ==
    {cols[n] : n \in adj[node_id] \cap DOMAIN cols}

\* Lines 130-133: the first day that is not used, if there is one.
FirstFreeDay(used) ==
    LET free == {k \in DOMAIN days : days[k] \notin used}
    IN IF free = {} THEN None
       ELSE <<days[CHOOSE k \in free : \A j \in free : k <= j]>>

\* colors[node_id] = day
SetColor(cols, node_id, day) ==
    [n \in DOMAIN cols \cup {node_id} |-> IF n = node_id THEN day ELSE cols[n]]

\* Lines 106-118.
ColorStart ==
    /\ op = "color" /\ pc = "start"
    /\ LET built == AddNeighbours([id \in NodeIdSet(nodes) |-> {}], edges, 1)
       IN IF ~built.ok
          THEN /\ result' = KeyError(built.key)
               /\ pc' = "done"
               /\ UNCHANGED <<graph, colors, idx>>
          ELSE /\ graph' = built.graph
               /\ colors' = <<>>
               /\ idx' = 1
               /\ pc' = "loop"
               /\ UNCHANGED result
    /\ UNCHANGED <<argv, pvars, dist, prev, unvisited>>

\* Lines 120-137, the body of the loop for the node at position idx.
ColorNode ==
    /\ op = "color" /\ pc = "loop" /\ idx <= Len(nodes)
    /\ LET node_id == nodes[idx].id
           day == FirstFreeDay(UsedColors(graph, colors, node_id))
       IN colors' = IF day # None THEN SetColor(colors, node_id, day[1])
                    ELSE IF node_id \notin DOMAIN colors
                         THEN SetColor(colors, node_id, "Weekend")
                         ELSE colors
    /\ idx' = idx + 1
    /\ UNCHANGED <<argv, pvars, pc, graph, dist, prev, unvisited, result>>

\* Line 139.
ColorReturn ==
    /\ op = "color" /\ pc = "loop" /\ idx > Len(nodes)
    /\ result' = colors
    /\ pc' = "done"
    /\ UNCHANGED <<argv, cvars, pvars, graph, dist, prev, unvisited>>

----------------------------------------------------------------------------
(* GraphAlgorithms.validate_graph *)

\* d.get(key): the value, or None when the dict has no such key.
Has(d, key) == key \in DOMAIN d

\* not node.get('id'): the key is missing or its value is the empty string.
NoId(node) == ~Has(node, "id") \/ node.id = ""

\* Mutant: a repeated identifier is reported once, however often it recurs.
RECURSIVE CheckNodesReportOnce(_, _, _)
CheckNodesReportOnce(ns, i, acc) ==
    IF i > Len(ns) THEN acc
    ELSE LET node == ns[i]
             dup == [kind |-> "ID de noeud duplique", id |-> node.id]
             a1 == IF NoId(node)
                   THEN [acc EXCEPT !.errors =
                           Append(@, [kind |-> "Node n'a pas d'ID", at |-> i - 1])]
                   ELSE IF node.id \in acc.node_ids
                   THEN IF \E k \in DOMAIN acc.errors : acc.errors[k] = dup
                        THEN acc
                        ELSE [acc EXCEPT !.errors = Append(@, dup)]
                   ELSE [acc EXCEPT !.node_ids = @ \cup {node.id}]
             a2 == IF ~Has(node, "x") \/ ~Has(node, "y")
                   THEN [a1 EXCEPT !.errors =
                           Append(@, [kind |-> "Node n'a pas de coordonnees", at |-> i - 1])]
                   ELSE a1
         IN CheckNodesReportOnce(ns, i + 1, a2)

\* Lines 158-168 from node i on (i counts from 1, the messages from 0); acc
\* holds errors and node_ids.
RECURSIVE CheckNodes(_, _, _)
CheckNodes(ns, i, acc) ==
    IF i > Len(ns) THEN acc
    ELSE LET node == ns[i]
             a1 == IF NoId(node)
                   THEN [acc EXCEPT !.errors =
                           Append(@, [kind |-> "Node n'a pas d'ID", at |-> i - 1])]
                   ELSE IF node.id \in acc.node_ids
                   THEN [acc EXCEPT !.errors =
                           Append(@, [kind |-> "ID de noeud duplique", id |-> node.id])]
                   ELSE [acc EXCEPT !.node_ids = @ \cup {node.id}]
             a2 == IF ~Has(node, "x") \/ ~Has(node, "y")
                   THEN [a1 EXCEPT !.errors =
                           Append(@, [kind |-> "Node n'a pas de coordonnees", at |-> i - 1])]
                   ELSE a1
         IN CheckNodes(ns, i + 1, a2)

\* Lines 171-191 from edge i on; acc holds errors and warnings.
RECURSIVE CheckEdges(_, _, _, _)
CheckEdges(es, i, node_ids, acc) ==
    IF i > Len(es) THEN acc
    ELSE LET edge == es[i] IN
         IF ~Has(edge, "u") \/ ~Has(edge, "v")
         THEN CheckEdges(es, i + 1, node_ids,
                [acc EXCEPT !.errors =
                   Append(@, [kind |-> "Edge n'a pas de points de depart/arrivee", at |-> i - 1])])
         ELSE IF ~Has(edge, "w")
         THEN CheckEdges(es, i + 1, node_ids,
                [acc EXCEPT !.errors =
                   Append(@, [kind |-> "Edge n'a pas de poids", at |-> i - 1])])
         ELSE LET a1 == IF edge.u \notin node_ids
                        THEN [acc EXCEPT !.errors =
                                Append(@, [kind |-> "Edge: le noeud n'existe pas",
                                           at |-> i - 1, id |-> edge.u])]
                        ELSE acc
                  a2 == IF edge.v \notin node_ids
                        THEN [a1 EXCEPT !.errors =
                                Append(@, [kind |-> "Edge: le noeud n'existe pas",
                                           at |-> i - 1, id |-> edge.v])]
                        ELSE a1
                  a3 == IF edge.w <= 0
                        THEN [a2 EXCEPT !.warnings =
                                Append(@, [kind |-> "Edge a un poids non-positif",
                                           u |-> edge.u, v |-> edge.v, w |-> edge.w])]
                        ELSE a2
              IN CheckEdges(es, i + 1, node_ids, a3)

\* graph.keys(): the identifiers in the order of their first entry.
RECURSIVE KeysInOrder(_, _)
KeysInOrder(ns, i) ==
    IF i > Len(ns) THEN <<>>
    ELSE IF \E j \in 1..(i - 1) : ns[j].id = ns[i].id THEN KeysInOrder(ns, i + 1)
    ELSE <<ns[i].id>> \o KeysInOrder(ns, i + 1)

\* Mutant: an edge is entered in the list of u only.
RECURSIVE LinkOneWay(_, _, _)
LinkOneWay(g, es, i) ==
    IF i > Len(es) THEN g
    ELSE LET e == es[i] IN
         IF ~Has(e, "u") THEN KeyError("u")
         ELSE IF e.u \notin DOMAIN g THEN LinkOneWay(g, es, i + 1)
         ELSE IF ~Has(e, "v") THEN KeyError("v")
         ELSE IF e.v \notin DOMAIN g THEN LinkOneWay(g, es, i + 1)
         ELSE LinkOneWay([g EXCEPT ![e.u] = Append(@, e.v)], es, i + 1)

\* Lines 197-200 from edge i on: the edges whose endpoints are both keys are
\* entered in both lists. edge['u'] and, when edge['u'] is a key, edge['v']
\* are read of every edge: an edge without that field raises KeyError.
RECURSIVE LinkValidEdges(_, _, _)
LinkValidEdges(g, es, i) ==
    IF i > Len(es) THEN g
    ELSE LET e == es[i] IN
         IF ~Has(e, "u") THEN KeyError("u")
         ELSE IF e.u \notin DOMAIN g THEN LinkValidEdges(g, es, i + 1)
         ELSE IF ~Has(e, "v") THEN KeyError("v")
         ELSE IF e.v \notin DOMAIN g THEN LinkValidEdges(g, es, i + 1)
         ELSE LET g1 == [g EXCEPT ![e.u] = Append(@, e.v)]
              IN LinkValidEdges([g1 EXCEPT ![e.v] = Append(@, e.u)], es, i + 1)

\* The neighbours of a list that are not in seen, in order (line 216-217).
NotSeen(adj, seen) == SelectSeq(adj, LAMBDA n : n \notin seen)

\* Lines 211-217: the traversal with an explicit stack; returns visited.
RECURSIVE Traverse(_, _, _)
Traverse(g, stk, seen) ==
    IF stk = <<>> THEN seen
    ELSE LET current == stk[Len(stk)]
             rest == SubSeq(stk, 1, Len(stk) - 1)
         IN IF current \notin seen
            THEN Traverse(g, rest \o NotSeen(g[current], seen \cup {current}),
                          seen \cup {current})
            ELSE Traverse(g, rest, seen)

\* Lines 203-219 from key i on: len(components).
RECURSIVE CountComponents(_, _, _, _)
CountComponents(g, keys, i, seen) ==
    IF i > Len(keys) THEN 0
    ELSE IF keys[i] \in seen THEN CountComponents(g, keys, i + 1, seen)
    ELSE 1 + CountComponents(g, keys, i + 1, Traverse(g, <<keys[i]>>, seen))

\* Lines 153-234. The connectivity check (lines 194-223) reads node['id'] of
\* every node (line 196) and the endpoints of the edges (line 198): a
\* missing field raises KeyError there, after the checks of lines 158-191
\* have recorded it as an error.
ValidateGraph ==
    /\ op = "validate" /\ pc = "start"
    /\ LET a == CheckNodes(nodes, 1, [errors |-> <<>>, node_ids |-> {}])
           b == CheckEdges(edges, 1, a.node_ids, [errors |-> a.errors, warnings |-> <<>>])
           checked == nodes # <<>> /\ edges # <<>>
           g == LinkValidEdges([id \in NodeIdSet(nodes) |-> <<>>], edges, 1)
           n == CountComponents(g, KeysInOrder(nodes, 1), 1, {})
           warnings == IF checked /\ n > 1
                       THEN Append(b.warnings,
                                   [kind |-> "Le graphe a n composantes connexes", n |-> n])
                       ELSE b.warnings
       IN result' = IF checked /\ \E i \in DOMAIN nodes : ~Has(nodes[i], "id")
                    THEN KeyError("id")
                    ELSE IF checked /\ "raised" \in DOMAIN g
                    THEN g
                    ELSE [is_valid |-> (Len(b.errors) = 0),
                          errors |-> b.errors,
                          warnings |-> warnings,
                          stats |-> [nodes |-> Len(nodes), edges |-> Len(edges),
                                     node_ids |-> a.node_ids]]
    /\ pc' = "done"
    /\ UNCHANGED <<argv, cvars, pvars, graph, dist, prev, unvisited>>

----------------------------------------------------------------------------
(* GraphAlgorithms.find_all_paths *)

\* Lines 254-257 from edge i on: the edges whose endpoints are both keys.
RECURSIVE AddValidEdges(_, _, _)
AddValidEdges(g, es, i) ==
    IF i > Len(es) THEN g
    ELSE LET e == es[i] IN
         IF e.u \in DOMAIN g /\ e.v \in DOMAIN g
         THEN LET g1 == [g EXCEPT ![e.u] = Append(@, <<e.v, e.w>>)]
              IN AddValidEdges([g1 EXCEPT ![e.v] = Append(@, <<e.u, e.w>>)], es, i + 1)
         ELSE AddValidEdges(g, es, i + 1)

\* A call of dfs: its arguments and the position i of its loop over the
\* neighbours (0: the call has just been entered).
Call(current, path, cost) == [current |-> current, path |-> path, cost |-> cost, i |-> 0]

Top == stack[Len(stack)]

Pop == SubSeq(stack, 1, Len(stack) - 1)

\* list.sort(key=cost): ascending, entries of equal cost in their order.
RECURSIVE InsertByCost(_, _)
InsertByCost(sorted, x) ==
    IF sorted = <<>> THEN <<x>>
    ELSE IF x.cost < sorted[Len(sorted)].cost
         THEN Append(InsertByCost(SubSeq(sorted, 1, Len(sorted) - 1), x), sorted[Len(sorted)])
         ELSE Append(sorted, x)

RECURSIVE SortByCost(_)
SortByCost(l) ==
    IF l = <<>> THEN <<>>
    ELSE InsertByCost(SortByCost(SubSeq(l, 1, Len(l) - 1)), l[Len(l)])

\* Mutant: the slice keeps one entry more.
SliceOneMore(l, n) ==
    IF n >= 0 THEN SubSeq(l, 1, IF n + 1 < Len(l) THEN n + 1 ELSE Len(l))
    ELSE SubSeq(l, 1, Len(l) + n)

\* l[:n], for n of either sign.
Slice(l, n) ==
    IF n >= 0 THEN SubSeq(l, 1, IF n < Len(l) THEN n ELSE Len(l))
    ELSE SubSeq(l, 1, Len(l) + n)

\* Lines 253-259 and 282-288: the adjacency list, the lookup of src and dst,
\* the first call of dfs.
PathsStart ==
    /\ op = "paths" /\ pc = "start"
    /\ LET g == AddValidEdges([id \in NodeIdSet(nodes) |-> <<>>], edges, 1)
           s == Upper(src)
           d == Upper(dst)
       IN /\ graph' = g
          /\ IF s \notin DOMAIN g \/ d \notin DOMAIN g
             THEN /\ result' = <<>>
                  /\ pc' = "done"
                  /\ UNCHANGED stack
             ELSE /\ stack' = <<Call(s, <<>>, 0)>>
                  /\ pc' = "dfs"
                  /\ UNCHANGED result
    /\ UNCHANGED <<argv, cvars, all_paths, visited, dist, prev, unvisited>>

\* Mutant: the path is recorded without its last node.
DfsFoundWithoutCurrent ==
    /\ op = "paths" /\ pc = "dfs" /\ stack # <<>>
    /\ Top.i = 0 /\ Top.current = Upper(dst)
    /\ all_paths' = Append(all_paths, [path |-> Top.path, cost |-> Top.cost])
    /\ stack' = Pop
    /\ UNCHANGED <<argv, cvars, pc, graph, visited, dist, prev, unvisited, result>>

\* Lines 263-268: the target is reached.
DfsFound ==
    /\ op = "paths" /\ pc = "dfs" /\ stack # <<>>
    /\ Top.i = 0 /\ Top.current = Upper(dst)
    /\ all_paths' = Append(all_paths, [path |-> Append(Top.path, Top.current),
                                       cost |-> Top.cost])
    /\ stack' = Pop
    /\ UNCHANGED <<argv, cvars, pc, graph, visited, dist, prev, unvisited, result>>

\* Lines 270-271: enough paths have been collected.
DfsCapped ==
    /\ op = "paths" /\ pc = "dfs" /\ stack # <<>>
    /\ Top.i = 0 /\ Top.current # Upper(dst)
    /\ Len(all_paths) >= max_paths
    /\ stack' = Pop
    /\ UNCHANGED <<argv, cvars, pc, graph, all_paths, visited, dist, prev,
                   unvisited, result>>

\* Line 273.
DfsEnter ==
    /\ op = "paths" /\ pc = "dfs" /\ stack # <<>>
    /\ Top.i = 0 /\ Top.current # Upper(dst)
    /\ Len(all_paths) < max_paths
    /\ visited' = visited \cup {Top.current}
    /\ stack' = [stack EXCEPT ![Len(stack)].i = 1]
    /\ UNCHANGED <<argv, cvars, pc, graph, all_paths, dist, prev, unvisited, result>>

\* Lines 275-278: the next neighbour, with the call of dfs if it is not on
\* the current path.
DfsNeighbour ==
    /\ op = "paths" /\ pc = "dfs" /\ stack # <<>>
    /\ Top.i >= 1 /\ Top.i <= Len(graph[Top.current])
    /\ LET neighbor == graph[Top.current][Top.i][1]
           weight   == graph[Top.current][Top.i][2]
           advanced == [stack EXCEPT ![Len(stack)].i = @ + 1]
       IN stack' = IF neighbor \notin visited
                   THEN Append(advanced, Call(neighbor, Append(Top.path, Top.current),
                                              Top.cost + weight))
                   ELSE advanced
    /\ UNCHANGED <<argv, cvars, pc, graph, all_paths, visited, dist, prev,
                   unvisited, result>>

\* Mutant: the node stays in visited when its call ends.
DfsBacktrackKeepsVisited ==
    /\ op = "paths" /\ pc = "dfs" /\ stack # <<>>
    /\ Top.i > Len(graph[Top.current])
    /\ stack' = Pop
    /\ UNCHANGED <<argv, cvars, pc, graph, all_paths, visited, dist, prev, unvisited, result>>

\* Line 280.
DfsBacktrack ==
    /\ op = "paths" /\ pc = "dfs" /\ stack # <<>>
    /\ Top.i > Len(graph[Top.current])
    /\ visited' = visited \ {Top.current}
    /\ stack' = Pop
    /\ UNCHANGED <<argv, cvars, pc, graph, all_paths, dist, prev, unvisited, result>>

\* Lines 290-293.
PathsReturn ==
    /\ op = "paths" /\ pc = "dfs" /\ stack = <<>>
    /\ result' = Slice(SortByCost(all_paths), max_paths)
    /\ pc' = "done"
    /\ UNCHANGED <<argv, cvars, pvars, graph, dist, prev, unvisited>>

----------------------------------------------------------------------------
(* Dijkstra-algo.py: the search under the constraint C' *)

\* Lines 2-7.
ScriptGraph ==
    [n \in {"A", "B", "C", "D"} |->
        CASE n = "A" -> <<<<"B", 2>>, <<"C", 5>>>>
          [] n = "B" -> <<<<"A", 2>>, <<"C", 1>>, <<"D", 4>>>>
          [] n = "C" -> <<<<"A", 5>>, <<"B", 1>>, <<"D", 2>>>>
          [] n = "D" -> <<<<"B", 4>>, <<"C", 2>>>>]

\* Line 10: the constraint of the script, 7 on the directed edge (A, B).
ScriptConstraint == [e \in {<<"A", "B">>} |-> 7]

\* Mutant: a constraint on (u, v) is applied to (v, u) as well.
EffectiveWeightBothWays(c, current, neighbor, weight) ==
    IF <<current, neighbor>> \in DOMAIN c THEN c[<<current, neighbor>>]
    ELSE IF <<neighbor, current>> \in DOMAIN c THEN c[<<neighbor, current>>]
    ELSE weight

\* Lines 36-41.
EffectiveWeight(c, current, neighbor, weight) ==
    IF <<current, neighbor>> \in DOMAIN c THEN c[<<current, neighbor>>] ELSE weight

\* Lines 34-45, from position i of the adjacency list on: every neighbour is
\* relaxed, visited or not.
RECURSIVE ScriptRelax(_, _, _, _, _)
ScriptRelax(adj, i, current, c, d) ==
    IF i > Len(adj) THEN d
    ELSE LET neighbor == adj[i][1]
             new_dist == Plus(d[current], EffectiveWeight(c, current, neighbor, adj[i][2]))
         IN ScriptRelax(adj, i + 1, current, c,
                        IF Less(new_dist, d[neighbor])
                        THEN [d EXCEPT ![neighbor] = new_dist] ELSE d)

\* Lines 23-26: the first node, in the iteration order of the set, that no
\* later node beats strictly; a node at infinity when all are.
ScriptCandidates(d, unv) == {n \in unv : \A m \in unv : ~Less(d[m], d[n])}

\* Lines 22-45, one iteration that goes through.
ScriptVisit ==
    /\ op = "script" /\ pc = "loop"
    /\ \E current \in ScriptCandidates(dist, unvisited) :
        /\ dist[current] # Inf
        /\ unvisited' = unvisited \ {current}
        /\ dist' = ScriptRelax(graph[current], 1, current, C_prime_constraint, dist)
    /\ UNCHANGED <<argv, cvars, pvars, pc, graph, prev, result>>

\* Lines 22, 28-29 and 47-50: the loop ends and the distances are printed.
ScriptEnd ==
    /\ op = "script" /\ pc = "loop"
    /\ \/ unvisited = {}
       \/ \E current \in ScriptCandidates(dist, unvisited) : dist[current] = Inf
    /\ result' = [dist |-> dist, constraints |-> C_prime_constraint]
    /\ pc' = "done"
    /\ UNCHANGED <<argv, cvars, pvars, graph, dist, prev, unvisited>>

----------------------------------------------------------------------------
(* Calls *)

\* handle_test_algorithms: the data of /api/algorithms/test.
test_nodes ==
    <<[id |-> "A", x |-> 100, y |-> 100], [id |-> "B", x |-> 200, y |-> 100],
      [id |-> "C", x |-> 150, y |-> 200], [id |-> "D", x |-> 300, y |-> 150]>>

test_edges ==
    <<Edge("A", "B", 10), Edge("A", "C", 15), Edge("B", "C", 5),
      Edge("B", "D", 20), Edge("C", "D", 10)>>

Idle == <<>>

InitArgs(o, ns, es, s, d, m, c) ==
    /\ op = o /\ nodes = ns /\ edges = es /\ src = s /\ dst = d
    /\ max_paths = m /\ C_prime_constraint = c
    /\ pc = "start"
    /\ graph = Idle /\ dist = Idle /\ prev = Idle /\ unvisited = {}
    /\ colors = Idle /\ idx = 0
    /\ all_paths = <<>> /\ stack = <<>> /\ visited = {}
    /\ result = None

\* The six pairs of Ids4, in the order the simple graphs list them.
Pairs4 == <<<<"A", "B">>, <<"A", "C">>, <<"B", "C">>,
            <<"B", "D">>, <<"C", "D">>, <<"A", "D">>>>

\* The edge list of a simple graph: pair i is given weight ws[i], or left
\* out when ws[i] = 0.
RECURSIVE SimpleEdges(_, _)
SimpleEdges(ws, i) ==
    IF i > Len(Pairs4) THEN <<>>
    ELSE (IF ws[i] = 0 THEN <<>>
          ELSE <<Edge(Pairs4[i][1], Pairs4[i][2], ws[i])>>) \o SimpleEdges(ws, i + 1)

SimpleGraphs == {SimpleEdges(ws, 1) : ws \in [1..Len(Pairs4) -> 0..MaxWeight]}

\* Edge lists over Ids with zero and negative weights, loops and repeats.
FreeEdgeLists == SeqsUpTo(EdgeDicts(Ids, (0 - 1)..MaxWeight), MaxEdges)

\* dijkstra on the freely drawn edge lists over three nodes.
InitDijkstraFree ==
    \E es \in FreeEdgeLists, s \in Ids, d \in Ids :
        InitArgs("dijkstra", NodeList(<<"A", "B", "C">>), es, s, d, 0, Idle)

\* dijkstra on every simple graph over four nodes.
InitDijkstraGraphs ==
    \E es \in SimpleGraphs, s \in Ids4, d \in Ids4 :
        InitArgs("dijkstra", NodeList(<<"A", "B", "C", "D">>), es, s, d, 0, Idle)

\* dijkstra with names that may be missing and edges that may dangle.
InitDijkstraNames ==
    \E ns \in {NodeList(<<"A", "B">>), NodeList(<<"a", "B">>)},
       es \in SeqsUpTo(EdgeDicts(Ids, {1}), 1), s \in Names, d \in Names :
        InitArgs("dijkstra", ns, es, s, d, 0, Idle)

\* handle_test_algorithms, lines 85-87.
InitDijkstraTest ==
    InitArgs("dijkstra", test_nodes, test_edges, "A", "D", 0, Idle)

\* The graph of Dijkstra-algo.py as a node list and an edge list.
script_nodes == NodeList(<<"A", "B", "C", "D">>)

script_edges ==
    <<Edge("A", "B", 2), Edge("A", "C", 5), Edge("B", "C", 1),
      Edge("B", "D", 4), Edge("C", "D", 2)>>

\* dijkstra on the graph of Dijkstra-algo.py.
InitDijkstraScriptGraph ==
    InitArgs("dijkstra", script_nodes, script_edges, "A", "D", 0, Idle)

\* Largest replacement weight drawn for a constraint.
MaxOverride == 7

\* The directed edges of the script's graph.
ScriptArcs ==
    UNION {{<<u, ScriptGraph[u][i][1]>> : i \in DOMAIN ScriptGraph[u]} : u \in DOMAIN ScriptGraph}

\* The constraints drawn: none, or one directed edge with its replacement
\* weight (the script's own is (A, B) -> 7).
Constraints ==
    {Idle} \cup {[e \in {a} |-> w] : a \in ScriptArcs, w \in 0..MaxOverride}

\* Dijkstra-algo.py after lines 1-19.
InitScript ==
    /\ op = "script"
    /\ nodes = script_nodes /\ edges = script_edges
    /\ src = "A" /\ dst = "D" /\ max_paths = 0
    /\ C_prime_constraint \in Constraints
    /\ pc = "loop"
    /\ graph = ScriptGraph
    /\ dist = [n \in DOMAIN ScriptGraph |-> IF n = "A" THEN Fin(0) ELSE Inf]
    /\ prev = Idle
    /\ unvisited = DOMAIN ScriptGraph
    /\ colors = Idle /\ idx = 0
    /\ all_paths = <<>> /\ stack = <<>> /\ visited = {}
    /\ result = None

\* Longest node list drawn with repeated identifiers.
MaxNodeList == 3

\* Number of nodes of the drawn dense graphs.
DenseNodes == 7

\* Largest number of edges a dense graph lacks to be complete.
MaxMissing == 2

\* Node lists over Ids, repeats included.
FreeNodeLists == {NodeList(ids) : ids \in SeqsUpTo(Ids, MaxNodeList)}

\* color_graph on node lists with repeats and edge lists that may refer to
\* nodes that are not listed.
InitColorFree ==
    \E ns \in FreeNodeLists, es \in SeqsUpTo(EdgeDicts(Ids, {1}), MaxEdges) :
        InitArgs("color", ns, es, "", "", 0, Idle)

\* The pairs of the first n identifiers, as a list.
RECURSIVE PairsFrom(_, _, _)
PairsFrom(n, i, j) ==
    IF i >= n THEN <<>>
    ELSE IF j > n THEN PairsFrom(n, i + 1, i + 2)
    ELSE <<Edge(IdSeq[i], IdSeq[j], 1)>> \o PairsFrom(n, i, j + 1)

\* The complete graph on the first DenseNodes identifiers without the edges
\* at the positions in missing.
DenseEdges(missing) ==
    LET all == PairsFrom(DenseNodes, 1, 2)
        keep(e) == \A k \in missing : all[k] # e
    IN SelectSeq(all, keep)

\* color_graph on the graphs that are complete up to MaxMissing edges.
InitColorDense ==
    \E missing \in {m \in SUBSET (1..(DenseNodes * (DenseNodes - 1)) \div 2) :
                      Cardinality(m) <= MaxMissing} :
        InitArgs("color", NodeList(SubSeq(IdSeq, 1, DenseNodes)),
                 DenseEdges(missing), "", "", 0, Idle)

InitColor == InitColorFree \/ InitColorDense

\* validate_graph on node lists with repeats and edge lists with zero
\* weights and references to nodes that are not listed.
InitValidateFree ==
    \E ns \in FreeNodeLists, es \in SeqsUpTo(EdgeDicts(Ids, 0..1), MaxEdges) :
        InitArgs("validate", ns, es, "", "", 0, Idle)

\* validate_graph on every simple graph over four nodes.
InitValidateGraphs ==
    \E es \in SimpleGraphs :
        InitArgs("validate", NodeList(<<"A", "B", "C", "D">>), es, "", "", 0, Idle)

InitValidate == InitValidateFree \/ InitValidateGraphs

\* Nodes of a request body that lack fields: no id, an empty id, no
\* coordinates.
PartialNodes ==
    {Node("A"), Node("B"), [x |-> 0, y |-> 0], [id |-> "", x |-> 0, y |-> 0], [id |-> "A"]}

\* Edges of a request body that lack fields: no u, no v, no v at an unknown
\* u, no weight.
PartialEdges ==
    {Edge("A", "B", 1), Edge("A", "C", 1), [v |-> "A", w |-> 1], [u |-> "A", w |-> 1],
     [u |-> "C", w |-> 1], [u |-> "A", v |-> "B"]}

\* validate_graph on lists whose entries may lack fields.
InitValidatePartial ==
    \E ns \in SeqsUpTo(PartialNodes, MaxNodeList), es \in SeqsUpTo(PartialEdges, MaxEdges) :
        InitArgs("validate", ns, es, "", "", 0, Idle)

\* Largest max_paths drawn.
MaxPaths == 2

\* The simple graphs over four nodes with the weights 1 and 2.
PathGraphs == {SimpleEdges(ws, 1) : ws \in [1..Len(Pairs4) -> 0..2]}

\* find_all_paths on every such graph; max_paths from -1 on.
InitPathsGraphs ==
    \E es \in PathGraphs, s \in Ids4, d \in Ids4, m \in (0 - 1)..MaxPaths :
        InitArgs("paths", NodeList(<<"A", "B", "C", "D">>), es, s, d, m, Idle)

\* find_all_paths with names that may be missing, on edge lists with loops,
\* repeats and references to nodes that are not listed.
InitPathsFree ==
    \E ns \in {NodeList(<<"A", "B", "C">>), NodeList(<<"a", "B">>)},
       es \in SeqsUpTo(EdgeDicts(Ids, 1..2), MaxEdges),
       s \in {"A", "a", "C"}, d \in {"A", "B", "b"}, m \in (0 - 1)..MaxPaths :
        InitArgs("paths", ns, es, s, d, m, Idle)

InitPaths == InitPathsGraphs \/ InitPathsFree

InitDijkstra ==
    InitDijkstraFree \/ InitDijkstraGraphs \/ InitDijkstraNames \/ InitDijkstraTest

NextDijkstra == DijkstraStart \/ DijkstraVisit \/ DijkstraBreak \/ DijkstraReturn

SpecDijkstra == InitDijkstra /\ [][NextDijkstra]_vars

\* dijkstra on every simple graph over four nodes with weights -1 and 1.
InitDijkstraSigned ==
    \E ws \in [1..Len(Pairs4) -> (0 - 1)..1], s \in Ids4, d \in Ids4 :
        InitArgs("dijkstra", NodeList(<<"A", "B", "C", "D">>), SimpleEdges(ws, 1), s, d, 0, Idle)

\* dijkstra on the edge lists over three nodes with weights -1, 0 and 1,
\* loops and repeats.
InitDijkstraLoops ==
    \E es \in SeqsUpTo(EdgeDicts(Ids, (0 - 1)..1), MaxEdges), s \in Ids, d \in Ids :
        InitArgs("dijkstra", NodeList(<<"A", "B", "C">>), es, s, d, 0, Idle)

\* The call running on: the interpreter takes the next step of dijkstra
\* whenever there is one. On edge lists with weights of either sign, loops
\* and repeats, and on the signed simple graphs.
SpecDijkstraRuns ==
    /\ InitDijkstraLoops \/ InitDijkstraSigned
    /\ [][NextDijkstra]_vars
    /\ WF_vars(NextDijkstra)

NextScript == ScriptVisit \/ ScriptEnd

\* The constrained search, and dijkstra on the same graph.
SpecScript ==
    (InitScript \/ InitDijkstraScriptGraph) /\ [][NextScript \/ NextDijkstra]_vars

NextColor == ColorStart \/ ColorNode \/ ColorReturn

SpecColor == InitColor /\ [][NextColor]_vars

NextValidate == ValidateGraph

SpecValidate == InitValidate /\ [][NextValidate]_vars

\* validate_graph on every drawn request body, entries that lack fields
\* included.
SpecValidateAny == (InitValidate \/ InitValidatePartial) /\ [][NextValidate]_vars

NextPaths ==
    \/ PathsStart \/ DfsFound \/ DfsCapped \/ DfsEnter \/ DfsNeighbour
    \/ DfsBacktrack \/ PathsReturn

SpecPaths == InitPaths /\ [][NextPaths]_vars

Init == InitDijkstra \/ InitDijkstraSigned \/ InitPaths \/ InitValidate \/ InitValidatePartial \/ InitColor \/ InitScript \/ InitDijkstraScriptGraph

Next == NextDijkstra \/ NextScript \/ NextColor \/ NextValidate \/ NextPaths

Spec == Init /\ [][Next]_vars

----------------------------------------------------------------------------
(* What the claims speak of, defined on the arguments alone *)

\* The edge e joins a and b, in either direction.
Joins(e, a, b) == (e.u = a /\ e.v = b) \/ (e.u = b /\ e.v = a)

\* Every edge references existing nodes.
EdgesReferToNodes == \A i \in DOMAIN edges : {edges[i].u, edges[i].v} \subseteq NodeIdSet(nodes)

NonNegativeWeights == \A i \in DOMAIN edges : edges[i].w >= 0

\* The costs of the ways to walk the node sequence p, one edge per hop.
RECURSIVE PathCosts(_)
PathCosts(p) ==
    IF Len(p) <= 1 THEN {0}
    ELSE {edges[i].w + c : i \in {j \in DOMAIN edges : Joins(edges[j], p[1], p[2])},
                           c \in PathCosts(Tail(p))}

\* The costs of the simple paths that lead from cur to target and avoid the
\* nodes of seen (cur is in seen).
RECURSIVE SimplePathCosts(_, _, _)
SimplePathCosts(cur, target, seen) ==
    IF cur = target THEN {0}
    ELSE UNION {IF Joins(edges[i], cur, n)
                THEN {edges[i].w + c : c \in SimplePathCosts(n, target, seen \cup {n})}
                ELSE {} :
                  i \in DOMAIN edges, n \in NodeIdSet(nodes) \ seen}

Reachable(a, b) == SimplePathCosts(a, b, {a}) # {}

Returned(o) == op = o /\ pc = "done"

Raised == "raised" \in DOMAIN result

Failed == "error" \in DOMAIN result

----------------------------------------------------------------------------
(* Claims on dijkstra *)

\* C1: on a graph whose edges reference existing nodes and have non-negative
\* weights, for a destination reachable from the source (both taken as
\* looked up, in upper case), dijkstra returns a path from the source to
\* the destination along existing edges, its cost is the sum of the weights
\* of edges along that path, and no simple path between them costs less.
C1_ShortestPath ==
    LET s == Upper(src)
        d == Upper(dst)
    IN (/\ Returned("dijkstra")
        /\ EdgesReferToNodes /\ NonNegativeWeights
        /\ s \in NodeIdSet(nodes) /\ d \in NodeIdSet(nodes)
        /\ Reachable(s, d))
       => /\ ~Raised /\ ~Failed
          /\ result.path # None
          /\ result.path[1] = s
          /\ result.path[Len(result.path)] = d
          /\ result.cost # Inf
          /\ result.cost[1] \in PathCosts(result.path)
          /\ \A c \in SimplePathCosts(s, d, {s}) : result.cost[1] <= c

\* A returned path of several hops that beats the direct edge.
C1_Witness ==
    /\ Returned("dijkstra") /\ ~Raised /\ ~Failed
    /\ EdgesReferToNodes /\ NonNegativeWeights
    /\ Len(result.path) >= 3
    /\ \E i \in DOMAIN edges :
         /\ Joins(edges[i], Upper(src), Upper(dst))
         /\ result.cost[1] < edges[i].w

TestCall ==
    /\ Returned("dijkstra")
    /\ nodes = test_nodes /\ edges = test_edges /\ src = "A" /\ dst = "D"

\* C2 as stated: on the data of /api/algorithms/test the search from A to D
\* returns the path [A,B,C,D] with cost 25.
C2_Original ==
    TestCall => result.path = <<"A", "B", "C", "D">> /\ result.cost = Fin(25)

\* C2, amended: on the data of /api/algorithms/test the search from A to D
\* returns the path [A,C,D] with cost 25 (C is reached at cost 15 both
\* directly and through B, and the first predecessor found is kept).
C2_TestData ==
    TestCall => result.path = <<"A", "C", "D">> /\ result.cost = Fin(25)

C2_Witness == TestCall /\ ~Failed /\ ~Raised

MissingName ==
    IF Upper(src) \notin NodeIdSet(nodes) THEN <<Upper(src)>>
    ELSE IF Upper(dst) \notin NodeIdSet(nodes) THEN <<Upper(dst)>>
    ELSE <<>>

\* C4: when the upper-cased src or dst is no node identifier, dijkstra
\* returns an error with no path and cost +infinity whose message names the
\* missing identifier, and it has then neither built the adjacency
\* structure nor run a search step, whatever the edges are.
C4_NodeNotFound ==
    (op = "dijkstra" /\ MissingName # <<>>)
    => /\ pc \in {"start", "done"}
       /\ graph = Idle /\ dist = Idle /\ prev = Idle /\ unvisited = {}
       /\ pc = "done" =>
            /\ Failed /\ ~Raised
            /\ result.path = None /\ result.cost = Inf
            /\ \E k \in DOMAIN result.error : result.error[k] = MissingName[1]

\* The error is returned although an edge refers to a node that does not exist.
C4_Witness ==
    /\ Returned("dijkstra") /\ MissingName # <<>> /\ Failed
    /\ ~EdgesReferToNodes

\* C5 as stated: with src and dst both present, whatever the edge list, an
\* unreachable dst gives cost +infinity and no path, and src = dst gives the
\* path [src] with cost 0.
C5_Original ==
    LET s == Upper(src)
        d == Upper(dst)
    IN (/\ Returned("dijkstra")
        /\ s \in NodeIdSet(nodes) /\ d \in NodeIdSet(nodes))
       => /\ ~Raised
          /\ ~Reachable(s, d) => result.path = None /\ result.cost = Inf
          /\ s = d => result.path = <<s>> /\ result.cost = Fin(0)

\* The same on the edge lists that refer to listed nodes only.
C5_NoPathOrTrivial ==
    LET s == Upper(src)
        d == Upper(dst)
    IN (/\ Returned("dijkstra") /\ EdgesReferToNodes
        /\ s \in NodeIdSet(nodes) /\ d \in NodeIdSet(nodes))
       => /\ ~Raised
          /\ ~Reachable(s, d) => result.path = None /\ result.cost = Inf
          /\ s = d => result.path = <<s>> /\ result.cost = Fin(0)

\* A destination that no edge connects to the source: the walk back from it
\* holds the destination alone and is not returned.
C5_Witness ==
    /\ Returned("dijkstra") /\ EdgesReferToNodes
    /\ Upper(src) \in NodeIdSet(nodes) /\ Upper(dst) \in NodeIdSet(nodes)
    /\ ~Reachable(Upper(src), Upper(dst))
    /\ edges # <<>>
    /\ result.path = None

----------------------------------------------------------------------------
(* Claims on the constrained search *)

\* The weight of the step from u to v over an edge of stored weight w: the
\* constraint on the ordered pair (u, v) if there is one, else w.
StepWeight(u, v, w) ==
    IF <<u, v>> \in DOMAIN C_prime_constraint THEN C_prime_constraint[<<u, v>>] ELSE w

\* The costs of the simple paths from cur to target outside seen, each step
\* weighed in its direction of travel.
RECURSIVE DirectedPathCosts(_, _, _)
DirectedPathCosts(cur, target, seen) ==
    IF cur = target THEN {0}
    ELSE UNION {IF (Joins(edges[i], cur, n))
                THEN {StepWeight(cur, n, edges[i].w) + c :
                        c \in DirectedPathCosts(n, target, seen \cup {n})}
                ELSE {} :
                  i \in DOMAIN edges, n \in NodeIdSet(nodes) \ seen}

Least(S) == CHOOSE x \in S : \A y \in S : x <= y

ScriptDone == op = "script" /\ pc = "done"

----------------------------------------------------------------------------
(* Claims on color_graph *)

\* The position at which node n is coloured: its first place in the list.
ColouredAt(n) == CHOOSE i \in DOMAIN nodes : nodes[i].id = n /\ \A j \in 1..(i - 1) : nodes[j].id # n

\* Two distinct listed nodes are joined by an edge.
Adjacent(a, b) ==
    a # b /\ \E i \in DOMAIN edges : Joins(edges[i], a, b)

\* The labels of the neighbours of n that are coloured before n.
EarlierNeighbourLabels(cols, n) ==
    {cols[m] : m \in {k \in NodeIdSet(nodes) : Adjacent(k, n) /\ ColouredAt(k) < ColouredAt(n)}}

\* What C6 says of a returned value.
ProperUnlessExhausted ==
    /\ ~Raised
    /\ \A n \in NodeIdSet(nodes) :
         n \in DOMAIN result /\ \E k \in DOMAIN days : result[n] = days[k]
    /\ \A a \in NodeIdSet(nodes), b \in NodeIdSet(nodes) :
         (Adjacent(a, b) /\ ColouredAt(a) < ColouredAt(b) /\ result[a] = result[b])
         => /\ result[b] = "Weekend"
            /\ \A k \in DOMAIN days : days[k] \in EarlierNeighbourLabels(result, b)

\* C6 as stated: for every node list and edge list color_graph gives every node one of
\* the six labels, and two nodes joined by an edge share a label only when it
\* is "Weekend" and the neighbours of the node coloured later had taken all
\* six labels before it.
C6_Coloring == Returned("color") => ProperUnlessExhausted

\* The same on the edge lists that refer to listed nodes only.
C6_ColoringOfGraphs ==
    (Returned("color") /\ EdgesReferToNodes) => ProperUnlessExhausted

\* Two adjacent nodes on "Weekend".
C6_WeekendShared ==
    /\ Returned("color") /\ ~Raised
    /\ \E a \in NodeIdSet(nodes), b \in NodeIdSet(nodes) :
         Adjacent(a, b) /\ result[a] = "Weekend" /\ result[b] = "Weekend"

----------------------------------------------------------------------------
(* Claims on validate_graph *)

\* The number of entries of the node list that carry identifier n.
Occurrences(n) == Cardinality({i \in DOMAIN nodes : nodes[i].id = n})

\* The identifiers that the node list holds more than once.
Duplicated == {n \in NodeIdSet(nodes) : Occurrences(n) >= 2}

\* The positions of the errors that report identifier n as a duplicate.
DuplicateErrors(n) ==
    {k \in DOMAIN result.errors :
        result.errors[k].kind = "ID de noeud duplique" /\ result.errors[k].id = n}

\* Apart from repeated node identifiers the data is well formed: every edge
\* refers to listed nodes (nodes and edges have all their fields in every
\* drawn call).
OtherwiseWellFormed == EdgesReferToNodes

\* C7 as stated: one duplicated identifier, whatever the number of its
\* occurrences, gives exactly one error, naming it, and is_valid false.
C7_Original ==
    (Returned("validate") /\ OtherwiseWellFormed /\ Cardinality(Duplicated) = 1)
    => /\ Len(result.errors) = 1
       /\ \A n \in Duplicated : DuplicateErrors(n) = {1}
       /\ ~result.is_valid

\* C7, amended: an identifier that occurs k >= 2 times in the node list is
\* reported by k - 1 errors naming it (exactly one when it occurs twice),
\* these are all the errors when the other data is well formed, and
\* is_valid is false.
C7_DuplicateIds ==
    Returned("validate") =>
        /\ \A n \in NodeIdSet(nodes) : Cardinality(DuplicateErrors(n)) = Occurrences(n) - 1
        /\ Duplicated # {} => ~result.is_valid
        /\ OtherwiseWellFormed =>
             /\ DOMAIN result.errors = UNION {DuplicateErrors(n) : n \in Duplicated}
             /\ result.is_valid = (Duplicated = {})

\* An identifier listed three times.
C7_Witness ==
    /\ Returned("validate") /\ OtherwiseWellFormed
    /\ \E n \in Duplicated : Occurrences(n) = 3 /\ Cardinality(DuplicateErrors(n)) = 2

\* The nodes that one step from a node of S reaches over an edge whose two
\* endpoints are listed nodes.
Step(S) ==
    S \cup {n \in NodeIdSet(nodes) :
              \E m \in S, i \in DOMAIN edges :
                 Joins(edges[i], m, n) /\ {edges[i].u, edges[i].v} \subseteq NodeIdSet(nodes)}

RECURSIVE Closure(_)
Closure(S) == IF Step(S) = S THEN S ELSE Closure(Step(S))

\* The number of connected components of the undirected graph over the
\* node identifiers and the edges whose two endpoints exist.
NumComponents == Cardinality({Closure({n}) : n \in NodeIdSet(nodes)})

\* The positions of the warnings on connectivity.
ComponentWarnings ==
    {k \in DOMAIN result.warnings :
        result.warnings[k].kind = "Le graphe a n composantes connexes"}

\* A graph in the sense of the data model: distinct identifiers, edges
\* between listed nodes, positive weights.
ProperGraph ==
    /\ Duplicated = {} /\ EdgesReferToNodes
    /\ \A i \in DOMAIN edges : edges[i].w > 0

\* C8 as stated: a graph made of two disjoint connected subgraphs gets
\* exactly one warning, which states 2 components; and a connectivity
\* warning always states the number of components.
C8_Original ==
    Returned("validate") =>
        /\ (ProperGraph /\ NumComponents = 2) =>
             /\ Len(result.warnings) = 1
             /\ ComponentWarnings = {1}
             /\ result.warnings[1].n = 2
        /\ \A k \in ComponentWarnings : result.warnings[k].n = NumComponents

\* C8, amended: the same for a graph with at least one edge (without edges
\* connectivity is not checked and no warning is given): two disjoint
\* connected subgraphs get exactly one warning, stating 2 components; a
\* connectivity warning is given exactly when both lists are non-empty and
\* there is more than one component, at most once, and states the number of
\* components.
C8_Components ==
    Returned("validate") =>
        /\ (ProperGraph /\ NumComponents = 2 /\ edges # <<>>) =>
             /\ Len(result.warnings) = 1
             /\ ComponentWarnings = {1}
             /\ result.warnings[1].n = 2
        /\ \A k \in ComponentWarnings : result.warnings[k].n = NumComponents
        /\ Cardinality(ComponentWarnings) =
             IF nodes # <<>> /\ edges # <<>> /\ NumComponents > 1 THEN 1 ELSE 0

\* Two components of two nodes each.
C8_Witness ==
    /\ Returned("validate") /\ ProperGraph
    /\ Len(nodes) = 4 /\ Len(edges) = 2 /\ NumComponents = 2
    /\ Len(result.warnings) = 1

----------------------------------------------------------------------------
(* Claims on find_all_paths *)

\* C9 as stated: with src = dst a node of the graph, for every max_paths,
\* the result is the single entry with path [src] and cost 0.
C9_Original ==
    (Returned("paths") /\ Upper(src) \in NodeIdSet(nodes) /\ Upper(src) = Upper(dst))
    => result = <<[path |-> <<Upper(src)>>, cost |-> 0]>>

\* C9, amended: with src = dst a node of the graph and max_paths >= 1 the
\* result is the single entry with path [src] and cost 0; with
\* max_paths <= 0 the result is empty.
C9_SameNode ==
    (Returned("paths") /\ Upper(src) \in NodeIdSet(nodes) /\ Upper(src) = Upper(dst))
    => result = IF max_paths >= 1 THEN <<[path |-> <<Upper(src)>>, cost |-> 0]>>
                ELSE <<>>

\* The one-node path is returned for a node that has edges.
C9_Witness ==
    /\ Returned("paths") /\ Upper(src) = Upper(dst) /\ max_paths >= 1
    /\ Len(result) = 1
    /\ \E i \in DOMAIN edges : edges[i].u = Upper(src) /\ edges[i].v # Upper(src)

\* C10: for max_paths >= 0 the result has at most max_paths entries, in
\* ascending order of cost, each a simple path from src to dst (as looked
\* up, in upper case) along existing edges with the sum of the weights of
\* its edges as cost; it is empty if src or dst is no node of the graph.
C10_BoundedSortedSimple ==
    (Returned("paths") /\ max_paths >= 0)
    => /\ Len(result) <= max_paths
       /\ \A i \in DOMAIN result, j \in DOMAIN result :
            i < j => result[i].cost <= result[j].cost
       /\ \A k \in DOMAIN result :
            LET p == result[k].path IN
            /\ p # <<>>
            /\ p[1] = Upper(src) /\ p[Len(p)] = Upper(dst)
            /\ \A i \in DOMAIN p, j \in DOMAIN p : i # j => p[i] # p[j]
            /\ \A i \in DOMAIN p : p[i] \in NodeIdSet(nodes)
            /\ result[k].cost \in PathCosts(p)
       /\ (Upper(src) \notin NodeIdSet(nodes) \/ Upper(dst) \notin NodeIdSet(nodes))
            => result = <<>>

\* More paths were collected than max_paths, in an order that is not the
\* order of cost, and the result is cut to max_paths.
C10_Witness ==
    /\ Returned("paths") /\ max_paths >= 1
    /\ Len(all_paths) > max_paths /\ Len(result) = max_paths
    /\ \E i \in DOMAIN all_paths, j \in DOMAIN all_paths :
         i < j /\ all_paths[i].cost > all_paths[j].cost
    /\ Len(result[1].path) >= 3

\* C11 as stated: once the number of collected paths has reached max_paths,
\* no step of the traversal appends a path to the collection.
C11_Original ==
    [][(op = "paths" /\ pc = "dfs" /\ Len(all_paths) >= max_paths)
         => all_paths' = all_paths]_vars

\* With max_paths >= 1, a call already in flight reaches the target after
\* the collection is full and appends to it: the collection holds more than
\* max_paths paths before the sort and the cut.
C11_Overshoot ==
    /\ op = "paths" /\ pc = "dfs" /\ max_paths >= 1
    /\ Len(all_paths) > max_paths
    /\ EdgesReferToNodes
    /\ \A i \in DOMAIN edges, j \in DOMAIN edges :
         (i # j) => {edges[i].u, edges[i].v} # {edges[j].u, edges[j].v}

----------------------------------------------------------------------------
(* Claims on the failures of the algorithm functions *)

\* C12 as stated: validate_graph returns a report on every input; an edge
\* that lacks an endpoint field and a node that lacks an identifier are
\* recorded as errors of that report and the later checks are completed.
C12_Original ==
    Returned("validate") =>
        /\ ~Raised
        /\ DOMAIN result = {"is_valid", "errors", "warnings", "stats"}
        /\ \A i \in DOMAIN edges :
             (~Has(edges[i], "u") \/ ~Has(edges[i], "v")) =>
                \E k \in DOMAIN result.errors :
                    result.errors[k] =
                        [kind |-> "Edge n'a pas de points de depart/arrivee", at |-> i - 1]
        /\ \A i \in DOMAIN nodes :
             NoId(nodes[i]) =>
                \E k \in DOMAIN result.errors :
                    result.errors[k] = [kind |-> "Node n'a pas d'ID", at |-> i - 1]

\* All nodes have an identifier, an edge has no 'u', and validate_graph has
\* raised KeyError instead of returning a report.
C12_Raised ==
    /\ Returned("validate") /\ Raised
    /\ result = KeyError("u")
    /\ \A i \in DOMAIN nodes : ~NoId(nodes[i])
    /\ \E i \in DOMAIN edges : Has(edges[i], "u") /\ Has(edges[i], "v")

\* What holds of validate_graph on entries that lack fields: it raises
\* exactly when both lists are non-empty and a node has no 'id' field, or an
\* edge has no 'u' field, or no 'v' field at a 'u' that is a node; otherwise
\* it returns a report in which the entries that lack fields are recorded.
C12_ReportUnlessKeyError ==
    Returned("validate") =>
        /\ Raised <=>
             /\ nodes # <<>> /\ edges # <<>>
             /\ \/ \E i \in DOMAIN nodes : ~Has(nodes[i], "id")
                \/ \E i \in DOMAIN edges :
                     \/ ~Has(edges[i], "u")
                     \/ /\ ~Has(edges[i], "v")
                        /\ \E j \in DOMAIN nodes : nodes[j].id = edges[i].u
        /\ ~Raised =>
             /\ \A i \in DOMAIN edges :
                  (~Has(edges[i], "u") \/ ~Has(edges[i], "v")) =>
                     \E k \in DOMAIN result.errors :
                         result.errors[k] =
                             [kind |-> "Edge n'a pas de points de depart/arrivee", at |-> i - 1]
             /\ \A i \in DOMAIN nodes :
                  NoId(nodes[i]) =>
                     \E k \in DOMAIN result.errors :
                         result.errors[k] = [kind |-> "Node n'a pas d'ID", at |-> i - 1]
             /\ ~result.is_valid <=> result.errors # <<>>

\* The call has ended with an exception. find_all_paths has no step that
\* raises on entries that have all their fields: its value is a list.
Aborted == pc = "done" /\ op # "paths" /\ "raised" \in DOMAIN result

\* C13 as stated: each of dijkstra, color_graph, validate_graph and
\* find_all_paths ends with a returned value on every node list and edge
\* list, and never with an exception.
C13_Original ==
    (pc = "done" /\ op \in {"dijkstra", "color", "validate", "paths"}) => ~Aborted

\* dijkstra, called with src and dst that are nodes, has raised KeyError on
\* an edge to an identifier that is no node.
C13_DanglingEdge ==
    /\ Returned("dijkstra") /\ result = KeyError("C")
    /\ Upper(src) \in NodeIdSet(nodes) /\ Upper(dst) \in NodeIdSet(nodes)
    /\ \E i \in DOMAIN edges : edges[i].u \in NodeIdSet(nodes) /\ edges[i].v = "C"

\* What holds: on lists whose entries have all their fields, dijkstra and
\* color_graph raise exactly on an edge with an endpoint that is no node
\* (dijkstra only once src and dst are found), and find_all_paths, which
\* skips such edges, never raises.
C13_RaisesOnDanglingEdge ==
    /\ Returned("paths") =>
         \A k \in DOMAIN result : DOMAIN result[k] = {"path", "cost"}
    /\ Returned("color") => (Raised <=> ~EdgesReferToNodes)
    /\ Returned("dijkstra") =>
         (Raised <=> (~EdgesReferToNodes /\ MissingName = <<>>))

----------------------------------------------------------------------------
(* Claims on the completeness of find_all_paths *)

\* The simple paths from cur to target that avoid the nodes of seen (cur is
\* in seen), each as the sequence of its hops <<edge index, node reached>>:
\* two paths over the same nodes that differ in an edge are two paths.
RECURSIVE EdgePaths(_, _, _)
EdgePaths(cur, target, seen) ==
    IF cur = target THEN {<<>>}
    ELSE UNION {IF Joins(edges[i], cur, n)
                THEN {<<<<i, n>>>> \o q : q \in EdgePaths(n, target, seen \cup {n})}
                ELSE {} :
                  i \in DOMAIN edges, n \in NodeIdSet(nodes) \ seen}

\* The simple paths from src to dst (as looked up, in upper case) in the
\* graph of the listed nodes.
AllSimplePaths ==
    IF Upper(src) \in NodeIdSet(nodes) /\ Upper(dst) \in NodeIdSet(nodes)
    THEN EdgePaths(Upper(src), Upper(dst), {Upper(src)})
    ELSE {}

RECURSIVE HopsCost(_)
HopsCost(q) == IF q = <<>> THEN 0 ELSE edges[q[1][1]].w + HopsCost(Tail(q))

\* The entry find_all_paths returns for the path q.
EntryOf(q) ==
    [path |-> <<Upper(src)>> \o [k \in 1..Len(q) |-> q[k][2]], cost |-> HopsCost(q)]

\* C14: when src # dst, max_paths >= 1 and the graph has at most max_paths
\* simple paths from src to dst, the result holds as many entries as there
\* are simple paths, and the entry of every simple path occurs in it as many
\* times as there are simple paths (sequences of edges) with that entry.
C14_NoPathLost ==
    (/\ Returned("paths") /\ max_paths >= 1 /\ Upper(src) # Upper(dst)
     /\ Cardinality(AllSimplePaths) <= max_paths)
    => /\ Len(result) = Cardinality(AllSimplePaths)
       /\ \A q \in AllSimplePaths :
            Cardinality({k \in DOMAIN result : result[k] = EntryOf(q)})
              = Cardinality({r \in AllSimplePaths : EntryOf(r) = EntryOf(q)})

\* As many simple paths as max_paths, two of them, one through a node the
\* other has visited, so that the last call of dfs meets a full collection.
C14_Witness ==
    /\ Returned("paths") /\ max_paths = 2 /\ Upper(src) # Upper(dst)
    /\ Cardinality(AllSimplePaths) = 2
    /\ Len(result) = 2
    /\ Len(result[1].path) + Len(result[2].path) >= 7

----------------------------------------------------------------------------
(* Claims on the runs of dijkstra *)

\* The value the arguments determine, for non-negative weights: the raised
\* KeyError, the error, or the cost.
CostOfArguments ==
    LET s == Upper(src)
        d == Upper(dst)
    IN IF MissingName # <<>> THEN Inf
       ELSE IF Reachable(s, d) THEN Fin(Least(SimplePathCosts(s, d, {s})))
       ELSE Inf

\* C15: for non-negative weights the cost dijkstra returns is a function of
\* the arguments alone: whichever node the selection takes among several
\* nearest unvisited ones, every run on the same arguments ends with the
\* cost CostOfArguments (and every run raises, or none does).
C15_CostDetermined ==
    (Returned("dijkstra") /\ NonNegativeWeights)
    => /\ Raised <=> (MissingName = <<>> /\ ~EdgesReferToNodes)
       /\ ~Raised => result.cost = CostOfArguments

\* A run in which the selection had the choice between two nearest nodes,
\* on arguments with two cheapest paths over different nodes.
C15_Witness ==
    /\ Returned("dijkstra") /\ NonNegativeWeights /\ EdgesReferToNodes
    /\ ~Raised /\ ~Failed
    /\ \E a \in DOMAIN dist, b \in DOMAIN dist :
         /\ a # b /\ dist[a] = dist[b] /\ dist[a] # Inf
         /\ prev[a] = prev[b] /\ prev[a] # None
    /\ \E q \in AllSimplePaths, r \in AllSimplePaths :
         /\ EntryOf(q).path # EntryOf(r).path
         /\ Fin(HopsCost(q)) = result.cost /\ Fin(HopsCost(r)) = result.cost

\* C16: dijkstra ends on every edge list that refers to listed nodes only,
\* for weights of either sign and self-loops: every step of the main loop
\* takes one node out of unvisited, a predecessor is a visited node recorded
\* for a node that was unvisited, the walk back from dst ends within as many
\* steps as there are nodes, and the call reaches its end.
C16_Terminates ==
    /\ [][(op = "dijkstra" /\ pc = "loop" /\ pc' = "loop")
            => /\ unvisited' \subseteq unvisited
               /\ Cardinality(unvisited') = Cardinality(unvisited) - 1
               /\ \A n \in DOMAIN prev :
                    prev'[n] # prev[n] =>
                       (n \in unvisited' /\ prev'[n][1] \notin unvisited')]_vars
    /\ []((op = "dijkstra" /\ pc = "rebuild")
            => WalkBack(prev, <<Upper(dst)>>, <<>>, Cardinality(NodeIdSet(nodes))).ends)
    /\ (op = "dijkstra" /\ pc = "start" /\ EdgesReferToNodes) ~> (pc = "done")

\* dijkstra has ended with a path on a graph with a self-loop of negative
\* weight and an edge of negative weight on the path.
C16_Witness ==
    /\ Returned("dijkstra") /\ EdgesReferToNodes /\ ~Failed /\ ~Raised
    /\ \E i \in DOMAIN edges : edges[i].u = edges[i].v /\ edges[i].w < 0
    /\ Len(result.path) >= 2
    /\ Less(result.cost, Fin(0))

====
